---- MODULE Spec2Model ----
(***************************************************************************)
(* Model of generator/locality_index_generator.cpp: the per-feature        *)
(* LocalityObjectBuilder and the scatter/gather pipeline                   *)
(* GenerateLocalityIndex with its two entry points.                        *)
(***************************************************************************)
EXTENDS Naturals, Sequences, FiniteSets, TLC

\* ------------------------------------------------------------- bounds
\* Longest features file of the pipeline specification.
MaxFeatures == 2
\* Largest worker count handed to the pipeline.
MaxThreads == 2
\* Most points of one ring (before the closing duplicate) or of one line.
MaxRing == 3
\* Most Build calls on one builder in the builder specification.
MaxCalls == 2

\* ------------------------------------------------- program constants
RegionsChunk == 1
GeoObjectsChunk == 10
GeoObjectsAndStreetsChunk == 100
\* The strip/triangle arity of CHECK_GREATER_OR_EQUAL(innerTrg.size(), 3).
MinStripPoints == 3

\* ------------------------------------------------------------ helpers
Range(s) == {s[i] : i \in DOMAIN s}

\* The elements of s at the indices in S, in increasing index order.
SubSeqAt(s, S) ==
  [j \in 1..Cardinality(S) |->
     s[CHOOSE i \in S : Cardinality({k \in S : k < i}) = j - 1]]

\* s without repeated points (first occurrence kept).
Distinct(s) == SubSeqAt(s, {i \in DOMAIN s : \A j \in 1..(i - 1) : s[j] # s[i]})

PopBack(s) == SubSeq(s, 1, Len(s) - 1)

\* The element of a one-element set.
Only(S) == CHOOSE x \in S : TRUE

RECURSIVE Flatten(_)
Flatten(polys) ==
  IF polys = <<>> THEN <<>> ELSE Head(polys) \o Flatten(Tail(polys))

\* SimplifyPoints: fewer than 2 points give nothing; otherwise the first
\* and the last point stay and the interior points within tolerance go.
SimplifyPoints(in, flat) ==
  IF Len(in) < 2 THEN <<>>
  ELSE SubSeqAt(in, {i \in DOMAIN in : i = 1 \/ i = Len(in) \/ in[i] \notin flat})

\* --------------------------------------------------------- features
\* A ring of k distinct points off+1..off+k followed by the closing
\* duplicate of its first point.
Ring(k, off) == [i \in 1..(k + 1) |-> IF i = k + 1 THEN off + 1 ELSE off + i]
Line(k) == [i \in 1..k |-> i]

GeomTypes == {"Point", "Line", "Area"}

\* A FeatureBuilder as the builder sees it.  polys are the rings
\* (polys[1] is the outer geometry), flat the points the simplifier finds
\* within tolerance, directOk and hullSize the geometric facts about the
\* point sequence handed to the stripper: whether strip construction
\* works on it, and how many points its convex hull has.
PointShapes ==
  {[geomType |-> "Point", polys |-> << <<>> >>, keyPoint |-> 1, flat |-> {},
    directOk |-> FALSE, hullSize |-> 1]}

LineShapes ==
  {[geomType |-> "Line", polys |-> <<Line(k)>>, keyPoint |-> 1, flat |-> fl,
    directOk |-> FALSE, hullSize |-> 1] :
     k \in 1..MaxRing, fl \in {{}, {2}}}

AreaPolys ==
  {<<Ring(k, 0)>> : k \in 1..MaxRing}
    \cup {<<Ring(k, 0), Ring(j, MaxRing)>> : k \in 2..MaxRing, j \in 1..2}

AreaShapes ==
  {s \in [geomType : {"Area"}, polys : AreaPolys, keyPoint : {1},
          flat : {{}, {2}}, directOk : BOOLEAN, hullSize : 1..(MaxRing + 1)] :
     /\ s.hullSize <= Cardinality(Range(Flatten(s.polys)))
     /\ (s.hullSize = 1) = (Cardinality(Range(Flatten(s.polys))) = 1)
     /\ s.directOk => s.hullSize >= MinStripPoints
     \* a single ring whose points all survive simplification is not flat
     /\ (Len(s.polys) = 1 /\ s.hullSize < MinStripPoints)
          => Len(SimplifyPoints(s.polys[1], s.flat)) <= MinStripPoints}

Shapes == PointShapes \cup LineShapes \cup AreaShapes

IsLine(fb) == fb.geomType = "Line"
IsArea(fb) == fb.geomType = "Area"

\* ------------------------------------------- geometry collaborators
\* m2::ConvexHull(points, eps).Points(): hullSize of the distinct points.
ConvexHull(points, hullSize) ==
  LET d == Distinct(points)
  IN SubSeq(d, 1, IF hullSize < Len(d) THEN hullSize ELSE Len(d))

\* GeometryHolder{fb, header, maxTrianglesNumber}.
NewGeometryHolder == [trgInner |-> TRUE, innerPts |-> <<>>, innerTrg |-> <<>>]

AddPoints(holder, points) == [holder EXCEPT !.innerPts = points]

NeedProcessTriangles(holder) == ~holder.trgInner \/ holder.innerTrg = <<>>

SetInner(holder) == [holder EXCEPT !.trgInner = TRUE]

\* GeometryHolder::TryToMakeStrip: with geomOk (the geometry can be
\* stripped) and at least one triangle's worth of points the strip holds
\* every point; otherwise the holder stops storing triangles inline.
TryToMakeStrip(holder, points, geomOk) ==
  IF holder.trgInner /\ geomOk /\ Len(points) >= MinStripPoints
  THEN [ok |-> TRUE, holder |-> [holder EXCEPT !.innerTrg = points]]
  ELSE [ok |-> FALSE, holder |-> [holder EXCEPT !.trgInner = FALSE]]

\* serial::StripToTriangles: one triangle per strip point after the second.
StripToTriangles(strip) ==
  [i \in 1..(3 * (Len(strip) - 2)) |-> strip[((i - 1) \div 3) + ((i - 1) % 3) + 1]]

\* ------------------------------------------- LocalityObjectBuilder
NewLocalityObject == [id |-> 0, points |-> <<>>, triangles |-> <<>>]
SetId(obj, id) == [obj EXCEPT !.id = id]
SetPoints(obj, points) == [obj EXCEPT !.points = points, !.triangles = <<>>]
SetTriangles(obj, trg) == [obj EXCEPT !.points = <<>>, !.triangles = trg]

NewLocalityObjectBuilder ==
  [localityObject |-> NewLocalityObject, pointsBuffer |-> <<>>]

\* Line 107: nothing came out of the simplifier.
NoGeometry(points) == points = <<>>

\* Line 126: enough points to try the stripper.
EnoughForStrip(points) == Len(points) > 2

\* Line 134: the retry on the hull.
HullRetry(holder, hullPoints, geomOk) ==
  TryToMakeStrip(SetInner(holder), hullPoints, geomOk)

\* Mutant: only the inline flag is looked at.
StillNeedsTrianglesFlagOnly(holder) == ~holder.trgInner

\* Line 144: after the area branch the holder still has no triangles.
StillNeedsTriangles(holder) == NeedProcessTriangles(holder)

\* Lines 116-124: the point sequence of an area handed to the stripper.
AreaPoints(fb, simplified) ==
  IF Len(fb.polys) # 1 THEN Flatten(fb.polys) ELSE PopBack(simplified)

\* MakeGeometryHolder.  ok: a holder is returned; stripPoints: the point
\* sequences TryToMakeStrip was called with, in order; stripCalls: their
\* sizes; warned: the LWARNING of line 136 was written.
MakeGeometryHolder(fb) ==
  LET sizes(calls) == [i \in DOMAIN calls |-> Len(calls[i])]
      none(calls, w) == [ok |-> FALSE, holder |-> NewGeometryHolder,
                         stripCalls |-> sizes(calls), stripPoints |-> calls,
                         warned |-> w]
      some(h, calls) == [ok |-> TRUE, holder |-> h,
                         stripCalls |-> sizes(calls), stripPoints |-> calls,
                         warned |-> FALSE]
  IN Only({
       IF NoGeometry(simplified) THEN none(<<>>, FALSE)
       ELSE Only({
         IF ~(IsArea(fb) /\ NeedProcessTriangles(h1)) THEN some(h1, <<>>)
         ELSE Only({
           IF ~EnoughForStrip(points)
           THEN IF StillNeedsTriangles(h1) THEN none(<<>>, FALSE)
                ELSE some(h1, <<>>)
           ELSE Only({
             IF first.ok
             THEN IF StillNeedsTriangles(first.holder)
                  THEN none(<<points>>, FALSE)
                  ELSE some(first.holder, <<points>>)
             ELSE Only({
               Only({
                 IF ~second.ok THEN none(<<points, hullPoints>>, TRUE)
                 ELSE IF StillNeedsTriangles(second.holder)
                      THEN none(<<points, hullPoints>>, FALSE)
                      ELSE some(second.holder, <<points, hullPoints>>)
                 : second \in {HullRetry(first.holder, hullPoints,
                                         Len(hullPoints) >= MinStripPoints)}})
               : hullPoints \in {ConvexHull(points, fb.hullSize)}})
             : first \in {TryToMakeStrip(h1, points, fb.directOk)}})
           : points \in {AreaPoints(fb, simplified)}})
         : h1 \in {IF IsLine(fb) THEN AddPoints(NewGeometryHolder, simplified)
                   ELSE NewGeometryHolder}})
       : simplified \in {SimplifyPoints(fb.polys[1], fb.flat)}})

\* Mutant: CHECK_GREATER in place of CHECK_GREATER_OR_EQUAL.
CheckInnerTrgStrict(innerTrg) == Len(innerTrg) > MinStripPoints

\* Line 78: CHECK_GREATER_OR_EQUAL(data.m_innerTrg.size(), 3).
CheckInnerTrg(innerTrg) == Len(innerTrg) >= MinStripPoints

\* Mutant: the buffer is appended to without being cleared.
FillPointsBufferKeeping(pointsBuffer, innerTrg) == pointsBuffer \o innerTrg

\* Lines 80-81: m_pointsBuffer.clear(); m_pointsBuffer.append(innerTrg).
FillPointsBuffer(pointsBuffer, innerTrg) == <<>> \o innerTrg

\* LocalityObjectBuilder::operator().  status is "object" (a reference to
\* the builder's locality object is returned), "none" (boost::none) or
\* "abort" (a failed CHECK or UNREACHABLE ends the process).
Build(builder, fb) ==
  Only({
    LET data == gh.holder
        withId == SetId(builder.localityObject, fb.id)
        buffer == FillPointsBuffer(builder.pointsBuffer, data.innerTrg)
        res(st, b) == [status |-> st, builder |-> b, holderOk |-> gh.ok,
                       holder |-> data, stripCalls |-> gh.stripCalls,
                       stripPoints |-> gh.stripPoints, warned |-> gh.warned]
    IN IF ~gh.ok THEN res("none", builder)
       ELSE CASE fb.geomType = "Point" ->
                   res("object",
                       [builder EXCEPT !.localityObject =
                          SetPoints(withId, <<fb.keyPoint>>)])
              [] fb.geomType = "Line" ->
                   res("object",
                       [builder EXCEPT !.localityObject =
                          SetPoints(withId, data.innerPts)])
              [] fb.geomType = "Area" ->
                   IF ~CheckInnerTrg(data.innerTrg)
                   THEN res("abort", [builder EXCEPT !.localityObject = withId])
                   ELSE res("object",
                            [localityObject |->
                               SetTriangles(withId, StripToTriangles(buffer)),
                             pointsBuffer |-> buffer])
              [] OTHER -> res("abort", [builder EXCEPT !.localityObject = withId])
    : gh \in {MakeGeometryHolder(fb)}})

\* ------------------------------------------------------- variables
\* The builder specification: one builder, the number of calls made on
\* it, and the feature and the outcome of the latest call.
VARIABLES b_builder, b_calls, b_last

\* The environment of one run of an entry point; tmpFile0 is the temporary
\* combined features file as the run found it.
VARIABLES entry, threadsCount, geoObjectsFile, streetsFile, nodesFile, tmpFile0

\* The file system: the temporary combined features file.
VARIABLES tmpFile

\* GenerateRegionsIndex / GenerateGeoObjectsIndex; logged is the LERROR
\* entry ParseNodes wrote.
VARIABLES epc, nodeIds, entryResult, logged

\* GenerateLocalityIndex and the workers ProcessParallelFromDatRawFormat runs.
VARIABLES pc, chunkFeaturesCount, stream, pos, workers, coveringsParts,
          localitiesCovering, handed, result

\* History: who wrote each covering part, how often each feature went
\* through a processor, whether reading the stream failed, the ids of the
\* features the filter let through.
VARIABLES writers, attempts, readFailed, accepted

bvars == <<b_builder, b_calls, b_last>>
envvars == <<entry, threadsCount, geoObjectsFile, streetsFile, nodesFile,
            tmpFile0>>
evars == <<epc, nodeIds, entryResult, logged>>
pvars == <<pc, chunkFeaturesCount, stream, pos, workers, coveringsParts,
           localitiesCovering, handed, result>>
hvars == <<writers, attempts, readFailed, accepted>>
vars == <<bvars, envvars, tmpFile, evars, pvars, hvars>>

\* ------------------------------------------------------ feature files
OutPath == "out"

Tagged(shape, tags) == shape @@ [tags |-> tags]

Area1(k, ok, hull) ==
  [geomType |-> "Area", polys |-> <<Ring(k, 0)>>, keyPoint |-> 1, flat |-> {},
   directOk |-> ok, hullSize |-> hull]

\* Two rings whose points all lie on one straight line.
FlatRings ==
  [geomType |-> "Area", polys |-> <<Ring(2, 0), Ring(1, MaxRing)>>,
   keyPoint |-> 1, flat |-> {}, directOk |-> FALSE, hullSize |-> 2]

APoint == CHOOSE s \in PointShapes : TRUE
ALine == [geomType |-> "Line", polys |-> <<Line(MaxRing)>>, keyPoint |-> 1,
          flat |-> {}, directOk |-> FALSE, hullSize |-> 1]

\* The features the pipeline specification reads.
PipelineShapes ==
  {Tagged(APoint, {"poi"}), Tagged(APoint, {"building"}),
   Tagged(ALine, {"street"}),
   Tagged(Area1(MaxRing, TRUE, MaxRing), {}),
   Tagged(Area1(MaxRing, FALSE, MaxRing), {"house"}),
   Tagged(FlatRings, {"building"})}

\* A features file of n features with ids base+1..base+n.
FeatureFiles(base, lens) ==
  UNION {{[i \in 1..n |-> [id |-> base + i] @@ f[i]] :
            f \in [1..n -> PipelineShapes]} : n \in lens}

\* Ids of the streets file and of the leftover temporary file lie above
\* the ids of the geo objects file.
StreetsBase == MaxFeatures + 1
LeftoverId == StreetsBase + 2

NoFile == [given |-> FALSE, content |-> <<>>]
StreetsFiles ==
  {NoFile} \cup
  {[given |-> TRUE, content |-> <<[id |-> StreetsBase + 1] @@ Tagged(ALine, {"street"})>>]}

\* A nodes file: not given, given with an empty path, not openable, or
\* lines whose first token is an id (tok = "id") or not a number.
IdLine(n) == [tok |-> "id", val |-> n]
BadLine == [tok |-> "bad", val |-> 0]
NodesFiles ==
  {[given |-> FALSE, path |-> "", opens |-> FALSE, lines |-> <<>>],
   [given |-> TRUE, path |-> "", opens |-> FALSE, lines |-> <<>>],
   [given |-> TRUE, path |-> "nodes", opens |-> FALSE, lines |-> <<>>]}
  \cup {[given |-> TRUE, path |-> "nodes", opens |-> TRUE, lines |-> l] :
          l \in {<<>>, <<IdLine(1)>>, <<IdLine(2), BadLine>>,
                  <<BadLine, IdLine(1)>>}}

TmpFiles ==
  {[exists |-> FALSE, content |-> <<>>],
   [exists |-> TRUE,
    content |-> <<[id |-> LeftoverId] @@ Tagged(Area1(MaxRing, TRUE, MaxRing), {"building"})>>]}

\* ------------------------------------------------------------ filters
IsBuilding(fb) == "building" \in fb.tags
HasHouse(fb) == "house" \in fb.tags
IsStreet(fb) == "street" \in fb.tags
IsPoi(fb) == "poi" \in fb.tags

\* Line 239.
RegionsFilter(fb) == IsArea(fb)

\* Mutant: a POI passes without its id being looked up.
GeoObjectsFilterAnyPoi(fb, ids, allowStreet) ==
  LET allowPoi == ids # {}
  IN IF IsBuilding(fb) \/ HasHouse(fb) THEN TRUE
     ELSE IF allowStreet /\ IsStreet(fb) THEN TRUE
     ELSE IF allowPoi /\ IsPoi(fb) THEN TRUE
     ELSE FALSE

\* Lines 255-271.
GeoObjectsFilter(fb, ids, allowStreet) ==
  LET allowPoi == ids # {}
  IN IF IsBuilding(fb) \/ HasHouse(fb) THEN TRUE
     ELSE IF allowStreet /\ IsStreet(fb) THEN TRUE
     ELSE IF allowPoi /\ IsPoi(fb) THEN fb.id \in ids
     ELSE FALSE

\* The filter GenerateLocalityIndex was handed by the entry point of this run.
FeatureFilter(fb) ==
  IF entry = "regions" THEN RegionsFilter(fb)
  ELSE GeoObjectsFilter(fb, nodeIds, streetsFile.given)

\* ----------------------------------------------------------- covering
\* indexBuilder.Cover: one (cell, object) entry per cell the geometry
\* touches; a cell per distinct point of the geometry.
Cover(obj) ==
  LET cells == Distinct(obj.points \o obj.triangles)
  IN [i \in 1..Len(cells) |-> [cell |-> cells[i], id |-> obj.id]]

\* Mutant: the filter is not consulted.
FilterRejectsNothing(fb) == FALSE

\* Line 170: the processor returns without building.
FilterRejects(fb) == ~FeatureFilter(fb)

\* Line 174: what the covering holds after the object was covered.
CoverInto(covering, obj) == covering \o Cover(obj)

\* Lines 167-175: one call of a worker's processor on its builder and its
\* covering.
Processor(builder, covering, fb) ==
  IF FilterRejects(fb)
  THEN [builder |-> builder, covering |-> covering, status |-> "filtered"]
  ELSE Only({[builder |-> r.builder,
              covering |-> IF r.status = "object"
                           THEN CoverInto(covering, r.builder.localityObject)
                           ELSE covering,
              status |-> r.status] : r \in {Build(builder, fb)}})

\* The covering one worker produces in one pass over a whole stream.
RECURSIVE OnePass(_, _, _)
OnePass(builder, covering, s) ==
  IF s = <<>> THEN covering
  ELSE Only({OnePass(r.builder, r.covering, Tail(s)) :
               r \in {Processor(builder, covering, Head(s))}})

SingleWorkerCovering(s) == OnePass(NewLocalityObjectBuilder, <<>>, s)

Count(s, e) == Cardinality({i \in DOMAIN s : s[i] = e})
SameBag(s, t) == \A e \in Range(s) \cup Range(t) : Count(s, e) = Count(t, e)

\* ------------------------------------------------------- initial state
Unborn == [status |-> "unborn", chunk |-> <<>>, cov |-> 0,
           builder |-> NewLocalityObjectBuilder]
NotHanded == [calls |-> 0, covering |-> <<>>, path |-> "", ret |-> "none"]
NoCall == [called |-> FALSE]
NoLog == [message |-> "", lineNumber |-> 0]

BuilderIdle ==
  /\ b_builder = NewLocalityObjectBuilder
  /\ b_calls = 0
  /\ b_last = NoCall

PipelineIdle ==
  /\ epc = "start"
  /\ nodeIds = {}
  /\ entryResult = "none"
  /\ logged = NoLog
  /\ pc = "idle"
  /\ chunkFeaturesCount = 0
  /\ stream = <<>>
  /\ pos = 1
  /\ workers = [w \in 1..threadsCount |-> Unborn]
  /\ coveringsParts = <<>>
  /\ localitiesCovering = <<>>
  /\ handed = NotHanded
  /\ result = "none"
  /\ writers = <<>>
  /\ attempts = [i \in {} |-> 0]
  /\ readFailed = FALSE
  /\ accepted = {}

Init ==
  /\ BuilderIdle
  /\ entry \in {"regions", "geo"}
  /\ threadsCount \in 1..MaxThreads
  /\ geoObjectsFile \in FeatureFiles(0, 0..MaxFeatures)
  /\ streetsFile \in (IF entry = "regions" THEN {NoFile} ELSE StreetsFiles)
  /\ nodesFile \in (IF entry = "regions" THEN {CHOOSE n \in NodesFiles : ~n.given}
                    ELSE NodesFiles)
  /\ tmpFile0 \in (IF streetsFile.given THEN TmpFiles
                   ELSE {CHOOSE t \in TmpFiles : ~t.exists})
  /\ tmpFile = tmpFile0
  /\ PipelineIdle

\* --------------------------------------------------------- entry points
\* Lines 219-231: the loop over the lines.  ok: the return value; ids:
\* nodeIds afterwards; log: the LERROR entry written, NoLog when none is.
RECURSIVE ParseLines(_, _, _)
ParseLines(lines, ids, lineNumber) ==
  IF lines = <<>> THEN [ok |-> TRUE, ids |-> ids, log |-> NoLog]
  ELSE IF Head(lines).tok # "id"
       THEN [ok |-> FALSE, ids |-> ids,
             log |-> [message |-> "Error while parsing node id at line",
                      lineNumber |-> lineNumber]]
       ELSE ParseLines(Tail(lines), ids \cup {Head(lines).val}, lineNumber + 1)

\* Mutant: the line count starts at 0.
ParseNodesFromZero(file, ids) ==
  IF file.path = "" THEN [ok |-> TRUE, ids |-> ids, log |-> NoLog]
  ELSE IF ~file.opens
       THEN [ok |-> FALSE, ids |-> ids,
             log |-> [message |-> "Could not open", lineNumber |-> 0]]
  ELSE ParseLines(file.lines, ids, 0)

\* Lines 205-233.
ParseNodes(file, ids) ==
  IF file.path = "" THEN [ok |-> TRUE, ids |-> ids, log |-> NoLog]
  ELSE IF ~file.opens
       THEN [ok |-> FALSE, ids |-> ids,
             log |-> [message |-> "Could not open", lineNumber |-> 0]]
  ELSE ParseLines(file.lines, ids, 1)

\* Entering GenerateLocalityIndex on a features file: line 161.
EnterPipeline(file, chunk) ==
  /\ pc' = "cover"
  /\ chunkFeaturesCount' = chunk
  /\ stream' = file
  /\ attempts' = [i \in {file[k].id : k \in DOMAIN file} |-> 0]
  /\ UNCHANGED <<pos, workers, coveringsParts, localitiesCovering, handed,
                 result, writers, readFailed, accepted>>

\* Lines 236-243.
GenerateRegionsIndex ==
  /\ entry = "regions"
  /\ epc = "start"
  /\ epc' = "pipeline"
  /\ EnterPipeline(geoObjectsFile, RegionsChunk)
  /\ UNCHANGED <<bvars, envvars, tmpFile, nodeIds, entryResult, logged>>

\* Lines 251-253: the allow-list could not be parsed.
GeoObjectsParseFails ==
  /\ entry = "geo"
  /\ epc = "start"
  /\ nodesFile.given
  /\ ~ParseNodes(nodesFile, {}).ok
  /\ epc' = "returned"
  /\ entryResult' = "false"
  /\ nodeIds' = ParseNodes(nodesFile, {}).ids
  /\ logged' = ParseNodes(nodesFile, {}).log
  /\ UNCHANGED <<bvars, envvars, tmpFile, pvars, hvars>>

\* Lines 251-279: no streets file, the pipeline runs on the geo objects.
GeoObjectsPlain ==
  /\ entry = "geo"
  /\ epc = "start"
  /\ nodesFile.given => ParseNodes(nodesFile, {}).ok
  /\ ~streetsFile.given
  /\ nodeIds' = (IF nodesFile.given THEN ParseNodes(nodesFile, {}).ids ELSE {})
  /\ epc' = "pipeline"
  /\ EnterPipeline(geoObjectsFile, GeoObjectsChunk)
  /\ UNCHANGED <<bvars, envvars, tmpFile, entryResult, logged>>

\* base::AppendFileToFile(from, to).
AppendFileToFile(from, to) ==
  [exists |-> TRUE, content |-> (IF to.exists THEN to.content ELSE <<>>) \o from]

\* Lines 251-290: both files are appended to the temporary file and the
\* pipeline runs on it.
GeoObjectsAndStreets ==
  /\ entry = "geo"
  /\ epc = "start"
  /\ nodesFile.given => ParseNodes(nodesFile, {}).ok
  /\ streetsFile.given
  /\ nodeIds' = (IF nodesFile.given THEN ParseNodes(nodesFile, {}).ids ELSE {})
  /\ LET combined == AppendFileToFile(streetsFile.content,
                       AppendFileToFile(geoObjectsFile, tmpFile))
     IN /\ tmpFile' = combined
        /\ EnterPipeline(combined.content, GeoObjectsAndStreetsChunk)
  /\ epc' = "pipeline"
  /\ UNCHANGED <<bvars, envvars, entryResult, logged>>

\* Mutant: the guard leaves the file in place.
ScopeGuardKeeps(tmp) == tmp

\* Line 284: SCOPE_GUARD(featuresFileGuard, RemoveFileIfExists(featuresFile)),
\* run when the scope is left by a return or by an exception.
ScopeGuard(tmp) == [exists |-> FALSE, content |-> <<>>]

\* Lines 281-287: AppendFileToFile throws in the first call (done = 0) or
\* in the second (done = 1); the exception leaves the function through the
\* scope guard.
GeoObjectsConcatFails(done) ==
  /\ entry = "geo"
  /\ epc = "start"
  /\ nodesFile.given => ParseNodes(nodesFile, {}).ok
  /\ streetsFile.given
  /\ nodeIds' = (IF nodesFile.given THEN ParseNodes(nodesFile, {}).ids ELSE {})
  /\ LET partial == IF done = 0 THEN tmpFile
                    ELSE AppendFileToFile(geoObjectsFile, tmpFile)
     IN tmpFile' = ScopeGuard(partial)
  /\ epc' = "returned"
  /\ entryResult' = "exception"
  /\ UNCHANGED <<bvars, envvars, logged, pvars, hvars>>

\* The entry point returns what GenerateLocalityIndex returned (lines 241,
\* 277, 289); the scope guard of line 284 removes the temporary file.
EntryReturn ==
  /\ epc = "pipeline"
  /\ pc = "done"
  /\ result # "abort"
  /\ epc' = "returned"
  /\ entryResult' = result
  /\ tmpFile' = (IF streetsFile.given THEN ScopeGuard(tmpFile) ELSE tmpFile)
  /\ UNCHANGED <<bvars, envvars, nodeIds, logged, pvars, hvars>>

\* ---------------------------------------------- GenerateLocalityIndex
Running(w) == workers[w].status = "running"
Made == Cardinality({w \in DOMAIN workers : workers[w].status # "unborn"})

\* Mutant: coveringsParts.front() in place of back().
NewPartIndexFront(parts) == 1

\* Line 164: the part of coveringsParts the new processor refers to.
NewPartIndex(parts) == Len(parts)

\* Lines 162-178: makeProcessor, called for the next worker, which then runs.
MakeProcessor ==
  /\ pc = "cover"
  /\ Made < threadsCount
  /\ LET w == Made + 1
         parts == Append(coveringsParts, <<>>)
     IN /\ coveringsParts' = parts
        /\ workers' = [workers EXCEPT ![w] =
                         [status |-> "running", chunk |-> <<>>,
                          cov |-> NewPartIndex(parts),
                          builder |-> NewLocalityObjectBuilder]]
        /\ writers' = Append(writers, {})
  /\ UNCHANGED <<bvars, envvars, tmpFile, evars, pc, chunkFeaturesCount, stream,
                 pos, localitiesCovering, handed, result, attempts, readFailed,
                 accepted>>

\* A worker takes the next chunk of the stream.
TakeChunk(w) ==
  /\ pc = "cover"
  /\ Running(w)
  /\ workers[w].chunk = <<>>
  /\ pos <= Len(stream)
  /\ LET last == IF pos + chunkFeaturesCount - 1 < Len(stream)
                 THEN pos + chunkFeaturesCount - 1 ELSE Len(stream)
     IN /\ workers' = [workers EXCEPT ![w].chunk = SubSeq(stream, pos, last)]
        /\ pos' = last + 1
  /\ UNCHANGED <<bvars, envvars, tmpFile, evars, pc, chunkFeaturesCount, stream,
                 coveringsParts, localitiesCovering, handed, result, hvars>>

\* Reading the features file fails: the run ends without a return value.
ReadFails(w) ==
  /\ pc = "cover"
  /\ Running(w)
  /\ workers[w].chunk = <<>>
  /\ pos <= Len(stream)
  /\ pc' = "done"
  /\ result' = "exception"
  /\ readFailed' = TRUE
  /\ UNCHANGED <<bvars, envvars, tmpFile, evars, chunkFeaturesCount, stream, pos,
                 workers, coveringsParts, localitiesCovering, handed, writers,
                 attempts, accepted>>

\* A worker runs its processor on the next feature of its chunk.
Process(w) ==
  /\ pc = "cover"
  /\ Running(w)
  /\ workers[w].chunk # <<>>
  /\ \E fb \in {Head(workers[w].chunk)}, c \in {workers[w].cov} :
     \E r \in {Processor(workers[w].builder, coveringsParts[c], fb)} :
        /\ workers' = [workers EXCEPT ![w].chunk = Tail(@),
                                      ![w].builder = r.builder]
        /\ coveringsParts' = [coveringsParts EXCEPT ![c] = r.covering]
        /\ writers' = [writers EXCEPT ![c] =
                         IF r.covering # coveringsParts[c] THEN @ \cup {w} ELSE @]
        /\ attempts' = [attempts EXCEPT ![fb.id] = @ + 1]
        /\ accepted' = IF r.status = "filtered" THEN accepted
                       ELSE accepted \cup {fb.id}
        /\ pc' = IF r.status = "abort" THEN "done" ELSE pc
        /\ result' = IF r.status = "abort" THEN "abort" ELSE result
  /\ UNCHANGED <<bvars, envvars, tmpFile, evars, chunkFeaturesCount, stream, pos,
                 localitiesCovering, handed, readFailed>>

\* A worker finds the stream exhausted and ends.
WorkerDone(w) ==
  /\ pc = "cover"
  /\ Running(w)
  /\ workers[w].chunk = <<>>
  /\ pos > Len(stream)
  /\ workers' = [workers EXCEPT ![w].status = "done"]
  /\ UNCHANGED <<bvars, envvars, tmpFile, evars, pc, chunkFeaturesCount, stream,
                 pos, coveringsParts, localitiesCovering, handed, result, hvars>>

AllDone == \A w \in DOMAIN workers : workers[w].status = "done"

\* ProcessParallelFromDatRawFormat returns: every worker was joined.
Join ==
  /\ pc = "cover"
  /\ AllDone
  /\ pc' = "merge"
  /\ UNCHANGED <<bvars, envvars, tmpFile, evars, chunkFeaturesCount, stream, pos,
                 workers, coveringsParts, localitiesCovering, handed, result,
                 hvars>>

\* Mutant: the loop stops with one part left.
MergeStopsEarly(parts) == Len(parts) > 1

\* Line 187: the merge loop goes on.
MergeGoesOn(parts) == parts # <<>>

\* Mutant: the part replaces the merged covering.
InsertPartAssign(merged, part) == part

\* Line 190: the part is inserted at the end of the merged covering.
InsertPart(merged, part) == merged \o part

\* Mutant: pop_front in place of pop_back.
PopPartFront(parts) == Tail(parts)

\* Line 191: coveringsParts.pop_back().
PopPart(parts) == PopBack(parts)

\* Lines 187-192: one turn of the merge loop.
MergeStep ==
  /\ pc = "merge"
  /\ MergeGoesOn(coveringsParts)
  /\ localitiesCovering' =
       InsertPart(localitiesCovering, coveringsParts[Len(coveringsParts)])
  /\ coveringsParts' = PopPart(coveringsParts)
  /\ UNCHANGED <<bvars, envvars, tmpFile, evars, pc, chunkFeaturesCount, stream,
                 pos, workers, handed, result, hvars>>

\* Mutant: the builder's answer is ignored.
ReturnTrue(ok) == "true"

\* Line 197: what GenerateLocalityIndex returns for the builder's answer.
ReturnFor(ok) == IF ~ok THEN "false" ELSE "true"

\* Lines 195-200: the merged covering goes to BuildCoveringIndex, which
\* answers ok.
BuildCoveringIndex(ok) ==
  /\ pc = "merge"
  /\ ~MergeGoesOn(coveringsParts)
  /\ handed' = [calls |-> handed.calls + 1, covering |-> localitiesCovering,
                path |-> OutPath, ret |-> IF ok THEN "true" ELSE "false"]
  /\ result' = ReturnFor(ok)
  /\ pc' = "done"
  /\ UNCHANGED <<bvars, envvars, tmpFile, evars, chunkFeaturesCount, stream, pos,
                 workers, coveringsParts, localitiesCovering, hvars>>

Next ==
  \/ GenerateRegionsIndex
  \/ GeoObjectsParseFails
  \/ GeoObjectsPlain
  \/ GeoObjectsAndStreets
  \/ \E done \in {0, 1} : GeoObjectsConcatFails(done)
  \/ EntryReturn
  \/ MakeProcessor
  \/ \E w \in DOMAIN workers : TakeChunk(w)
  \/ \E w \in DOMAIN workers : ReadFails(w)
  \/ \E w \in DOMAIN workers : Process(w)
  \/ \E w \in DOMAIN workers : WorkerDone(w)
  \/ Join
  \/ MergeStep
  \/ \E ok \in BOOLEAN : BuildCoveringIndex(ok)

Spec == Init /\ [][Next]_vars

\* The threads of the pool and the calling thread keep running: a step
\* that stays possible is eventually taken.
SpecLive == Spec /\ WF_vars(Next)

\* ------------------------------------------------- builder specification
\* The features handed to a builder: every shape, under some id.
BuildFeatures == {[id |-> i] @@ s : i \in 1..MaxCalls, s \in Shapes}

BuildInit ==
  /\ BuilderIdle
  /\ entry = "regions"
  /\ threadsCount = 1
  /\ geoObjectsFile = <<>>
  /\ streetsFile = NoFile
  /\ nodesFile = (CHOOSE n \in NodesFiles : ~n.given)
  /\ tmpFile0 = (CHOOSE t \in TmpFiles : ~t.exists)
  /\ tmpFile = tmpFile0
  /\ PipelineIdle

\* One call of the builder's operator() on a feature.
BuildCall(fb) ==
  /\ b_calls < MaxCalls
  /\ \E r \in {Build(b_builder, fb)} :
        /\ b_builder' = r.builder
        /\ b_last' = [called |-> TRUE, fb |-> fb, res |-> r]
  /\ b_calls' = b_calls + 1
  /\ UNCHANGED <<envvars, tmpFile, evars, pvars, hvars>>

BuildNext == \E fb \in BuildFeatures : BuildCall(fb)

SpecBuild == BuildInit /\ [][BuildNext]_vars

\* ---------------------------------------------------------- properties
Called == b_last.called
LastObject == b_last.res.builder.localityObject
AllThree(calls) == \A i \in DOMAIN calls : calls[i] >= MinStripPoints

\* C1: the covering handed to BuildCoveringIndex is, as a multiset of
\* (cell, object) entries, the covering one worker produces in one pass
\* over the whole stream, whatever the worker count and the chunks.
MergedEqualsSinglePass ==
  handed.calls > 0 => SameBag(handed.covering, SingleWorkerCovering(stream))

\* Two workers each contributed entries to the covering that was handed over.
TwoPartsMerged ==
  /\ handed.calls > 0
  /\ Len(writers) >= 2
  /\ writers[1] # {}
  /\ writers[2] # {}

MergeAfterJoinBuildAfterMerge ==
  /\ (pc = "merge" \/ handed.calls > 0) => AllDone
  /\ (localitiesCovering # <<>> \/ Len(coveringsParts) < Made) => AllDone
  /\ handed.calls > 0 => coveringsParts = <<>>

\* The index builder was called in a run of two workers with a covering.
HandedOverAfterTwoWorkers ==
  /\ handed.calls = 1
  /\ threadsCount = 2
  /\ AllDone
  /\ handed.covering # <<>>

\* C4 (as claimed): a run that ends has returned true or false, false when
\* reading the stream failed or the index builder failed, and true only
\* when the whole stream was read and the index was built.
FailureIsReturnedAsFalse ==
  pc = "done" =>
    /\ result \in {"true", "false"}
    /\ readFailed => result = "false"
    /\ handed.ret = "false" => result = "false"
    /\ result = "true" => (~readFailed /\ pos > Len(stream) /\ handed.ret = "true")

\* C5: BuildCoveringIndex is called at most once; when
\* GenerateLocalityIndex returns a value the call was made once, with the
\* merged covering and the output path, and the value is the call's; the
\* entry point returns that value.
BuilderAnswerPropagated ==
  /\ handed.calls <= 1
  /\ result \in {"true", "false"} =>
       /\ handed.calls = 1
       /\ handed.covering = localitiesCovering
       /\ handed.path = OutPath
       /\ result = handed.ret
  /\ (epc = "returned" /\ pc = "done") => entryResult = result

\* GenerateGeoObjectsIndex returned the false the index builder answered.
GeoObjectsReturnedFalse ==
  /\ entry = "geo"
  /\ epc = "returned"
  /\ handed.ret = "false"
  /\ entryResult = "false"

\* C6 (as claimed): Build of a point feature returns an object whose only
\* point is the feature's key point.
PointBuildSucceeds ==
  (Called /\ b_last.fb.geomType = "Point") =>
    /\ b_last.res.status = "object"
    /\ LastObject.points = <<b_last.fb.keyPoint>>

\* C7: an object returned for an area feature has a positive multiple of
\* 3 triangle points, and a holder returned for an area feature has an
\* inner strip of at least 3 points.
AreaHasTriangles ==
  (Called /\ IsArea(b_last.fb)) =>
    /\ b_last.res.status = "object" =>
         /\ Len(LastObject.triangles) >= 3
         /\ Len(LastObject.triangles) % 3 = 0
    /\ b_last.res.holderOk => Len(b_last.res.holder.innerTrg) >= MinStripPoints

\* An area was built from the strip of its hull.
AreaBuiltFromHull ==
  /\ Called
  /\ IsArea(b_last.fb)
  /\ b_last.res.status = "object"
  /\ Len(b_last.res.stripCalls) = 2

\* C8 (as claimed): TryToMakeStrip is never called with fewer than 3
\* points, and a retry on a hull of at least 3 points gives an object.
StripperGetsThreePoints ==
  Called =>
    /\ AllThree(b_last.res.stripCalls)
    /\ (Len(b_last.res.stripCalls) = 2
          /\ b_last.res.stripCalls[2] >= MinStripPoints)
         => b_last.res.status = "object"

\* C9: the covering handed over has entries for exactly the features
\* that pass the filter and that Build returns an object for, and every
\* feature went through a processor once and no more.
CoveredExactlyTheBuilt ==
  /\ \A i \in DOMAIN attempts : attempts[i] <= 1
  /\ handed.calls > 0 =>
       /\ \A i \in DOMAIN attempts : attempts[i] = 1
       /\ {e.id : e \in Range(handed.covering)} =
            {stream[k].id : k \in
               {j \in DOMAIN stream :
                  /\ FeatureFilter(stream[j])
                  /\ Build(NewLocalityObjectBuilder, stream[j]).status = "object"}}

\* One worker dropped a feature it tried to build and covered a later one.
CoveredAfterADrop ==
  /\ handed.calls > 0
  /\ threadsCount = 1
  /\ \E j, k \in DOMAIN stream :
       /\ j < k
       /\ FeatureFilter(stream[j])
       /\ Build(NewLocalityObjectBuilder, stream[j]).status = "none"
       /\ \E e \in Range(handed.covering) : e.id = stream[k].id

\* C10: Build returns an object or nothing for every feature; it never
\* ends in the failed CHECK of line 78 or the UNREACHABLE of line 89.
BuildNeverAborts ==
  Called => b_last.res.status \in {"object", "none"}

\* An area was dropped after the retry on its hull failed.
AreaDroppedAfterHullRetry ==
  /\ Called
  /\ IsArea(b_last.fb)
  /\ b_last.res.status = "none"
  /\ Len(b_last.res.stripCalls) = 2
  /\ b_last.res.warned

\* The 1-based number of the first line whose first token is not an id.
FirstBadLine(lines) ==
  CHOOSE i \in DOMAIN lines :
    lines[i].tok # "id" /\ \A j \in 1..(i - 1) : lines[j].tok = "id"

\* An allow-list file is named and cannot be opened or has a bad line.
AllowListUnusable ==
  /\ entry = "geo"
  /\ nodesFile.given
  /\ nodesFile.path # ""
  /\ ~nodesFile.opens \/ \E i \in DOMAIN nodesFile.lines : nodesFile.lines[i].tok # "id"

\* C11: with an allow-list file that cannot be opened or has a line without
\* a leading id, GenerateGeoObjectsIndex never enters the pipeline: no
\* feature is read, the temporary file is left as it was found, the index
\* builder is not called, the function returns false, and the line number
\* in the error message is the 1-based number of the first bad line.
BadAllowListReturnsFalseFirst ==
  AllowListUnusable =>
    /\ epc \in {"start", "returned"}
    /\ pc = "idle"
    /\ stream = <<>>
    /\ pos = 1
    /\ DOMAIN attempts = {}
    /\ tmpFile = tmpFile0
    /\ handed = NotHanded
    /\ epc = "returned" =>
         /\ entryResult = "false"
         /\ logged.message # ""
         /\ nodesFile.opens =>
              logged.lineNumber = FirstBadLine(nodesFile.lines)

\* C11 witness: the second line is the first bad one, line 2 is reported
\* and false returned, with a streets file given.
BadSecondLineReported ==
  /\ AllowListUnusable
  /\ epc = "returned"
  /\ entryResult = "false"
  /\ streetsFile.given
  /\ nodesFile.lines = <<IdLine(2), BadLine>>
  /\ logged.lineNumber = 2

\* GenerateGeoObjectsIndex was given a streets file, got past the
\* allow-list and has exited.
ExitedPastParsing ==
  /\ entry = "geo"
  /\ streetsFile.given
  /\ epc = "returned"
  /\ logged = NoLog

\* C12: when a streets file is given and GenerateGeoObjectsIndex got past
\* the allow-list, the temporary file geo_objects_and_streets does not exist
\* once the function has exited, whether the index was built, the index
\* builder answered false, or concatenating or reading the features failed.
TmpFileGoneAfterExit == ExitedPastParsing => ~tmpFile.exists

\* C12 witness: the function was left by a failure, with a temporary file
\* found in place at the start and none left.
FailedExitRemovedTmpFile ==
  /\ ExitedPastParsing
  /\ entryResult = "exception"
  /\ tmpFile0.exists
  /\ ~tmpFile.exists

\* The features of the stream that went through a processor.
Processed == {k \in DOMAIN stream : attempts[stream[k].id] > 0}

\* A point feature that is a POI and nothing else, under the given id.
PoiPoint(id) == [id |-> id] @@ Tagged(APoint, {"poi"})

\* C13: the geo-objects filter lets a feature through exactly when it is a
\* building, or has a house address, or a streets file is given and it is a
\* street, or the parsed allow-list is non-empty and it is a POI whose id is
\* in the list; with the list {10, 20, 30} a POI point passes under id 20
\* and not under id 40, and with an empty list no POI point passes.
FilterAcceptsExactlyTheListed ==
  /\ entry = "geo" =>
       \A k \in Processed :
         (stream[k].id \in accepted) <=>
           \/ IsBuilding(stream[k])
           \/ HasHouse(stream[k])
           \/ streetsFile.given /\ IsStreet(stream[k])
           \/ nodeIds # {} /\ IsPoi(stream[k]) /\ stream[k].id \in nodeIds
  /\ GeoObjectsFilter(PoiPoint(20), {10, 20, 30}, FALSE)
  /\ ~GeoObjectsFilter(PoiPoint(40), {10, 20, 30}, FALSE)
  /\ ~GeoObjectsFilter(PoiPoint(20), {}, FALSE)

\* C13 witness: with a non-empty allow-list one POI went through the filter
\* and another POI was stopped by it.
OnePoiPassedOneStopped ==
  /\ entry = "geo"
  /\ nodeIds # {}
  /\ \E j, k \in Processed :
       /\ IsPoi(stream[j]) /\ stream[j].id \in accepted
       /\ IsPoi(stream[k]) /\ stream[k].id \notin accepted

\* C14: every feature Build drops has a warning written about it before
\* Build returns nothing.
EveryDropIsLogged ==
  (Called /\ b_last.res.status = "none") => b_last.res.warned

\* C15: the points of the first TryToMakeStrip call on an area hold no
\* closing duplicate: the first point of every ring occurs in them at most
\* once, for one ring and for several rings flattened into one sequence.
FirstStripHasNoClosingPoint ==
  (Called /\ IsArea(b_last.fb) /\ b_last.res.stripPoints # <<>>) =>
    \A i \in DOMAIN b_last.fb.polys :
      Count(b_last.res.stripPoints[1], b_last.fb.polys[i][1]) <= 1

\* C16: what Build returns for a feature on a builder that served earlier
\* calls, whatever they were and however they ended, is what a fresh
\* builder returns for it: the same outcome and, when an object is
\* returned, the same id, points and triangles.
BuildIgnoresHistory ==
  Called =>
    \A fresh \in {Build(NewLocalityObjectBuilder, b_last.fb)} :
      /\ b_last.res.status = fresh.status
      /\ b_last.res.status = "object" =>
           LastObject = fresh.builder.localityObject

\* C16 witness: a line was built on a builder whose buffer still holds the
\* strip of an area built before.
LineBuiltAfterArea ==
  /\ Called
  /\ b_calls >= 2
  /\ IsLine(b_last.fb)
  /\ b_last.res.status = "object"
  /\ b_builder.pointsBuffer # <<>>
  /\ LastObject.triangles = <<>>

\* C17: with a streets file given, the stream the pipeline runs over is the
\* geo-objects features followed by the streets features, each once,
\* whatever was found at the temporary path.
CombinedIsGeoThenStreets ==
  (entry = "geo" /\ streetsFile.given /\ epc = "pipeline") =>
    stream = geoObjectsFile \o streetsFile.content

RECURSIVE SumLen(_)
SumLen(parts) ==
  IF parts = <<>> THEN 0 ELSE Len(Head(parts)) + SumLen(Tail(parts))

\* GenerateLocalityIndex has returned a boolean.
Returned == pc = "done" /\ result \in {"true", "false"}

\* C18: GenerateLocalityIndex, once entered, comes to an end, with a
\* boolean unless reading the stream failed; when it returns, every feature
\* of the stream went through a processor once and no part is left; every
\* turn of the merge loop removes one part and moves its entries to the
\* merged covering, so that the merged covering handed over has the summed
\* size of the parts.
ReturnsWithAllPartsMerged ==
  /\ (pc = "cover") ~> (pc = "done" /\ (readFailed \/ Returned))
  /\ [](Returned =>
         /\ pos > Len(stream)
         /\ \A id \in DOMAIN attempts : attempts[id] = 1
         /\ coveringsParts = <<>>
         /\ handed.covering = localitiesCovering)
  /\ [][(pc = "merge" /\ coveringsParts' # coveringsParts) =>
          /\ Len(coveringsParts') = Len(coveringsParts) - 1
          /\ Len(localitiesCovering') + SumLen(coveringsParts')
               = Len(localitiesCovering) + SumLen(coveringsParts)]_vars
  /\ [][localitiesCovering' # localitiesCovering =>
          (pc = "merge" /\ coveringsParts' # coveringsParts)]_vars

\* C18 witness: two workers each filled a part, both parts were merged and
\* GenerateLocalityIndex returned.
ReturnedAfterTwoFilledParts ==
  /\ Returned
  /\ Len(writers) = 2
  /\ \A i \in DOMAIN writers : writers[i] # {}
  /\ coveringsParts = <<>>
  /\ Len(handed.covering) >= 2

====
